---- MODULE Spec2Model ----
(***************************************************************************)
(* Batch image captioning driver (src/main.rs): discovery of image files,  *)
(* skip-existing filter, partition into batches, per-batch encoding, one   *)
(* endpoint call per batch, extraction of content values and the write of  *)
(* one JSON file per content value, with the progress counter.             *)
(*                                                                         *)
(* A file name is a sequence of tokens in which "." is the separator, so   *)
(* that extension, stem and output name are computed as the code does.     *)
(***************************************************************************)
EXTENDS Integers, Sequences, FiniteSets, TLC

VARIABLES
    dir,            \* listing of the input directory, in read_dir order
    batch_size,     \* --batch-size
    skip_existing,  \* --skip-existing
    schema,         \* schema_obj.is_some()
    fs,             \* output directory: output file name -> file state
    fs0,            \* the output directory as it was when the run started
    run,            \* 1 for the first run of the program, 2 for a second run
    firstOk,        \* second run only: every item of the first run was written
    pc,             \* position of main
    files,          \* the filtered file list
    total,          \* length of the progress bar
    pos,            \* position of the progress bar
    batches,        \* files.chunks(batch_size)
    bi,             \* index of the current batch
    ej,             \* index of the file being encoded in the current batch
    images_b64,     \* encoded payloads of the current batch (by source file)
    batch_names,    \* file stems of the encoded files of the current batch
    nreq,           \* requests sent in this run
    resp,           \* decoded response of the current call
    http_status,    \* HTTP status of the response to the last call, 0 when none came
    contents,       \* content values extracted from resp
    wi,             \* index of the content value being written
    status,         \* per item of files: how far it got, which error was logged
    written,        \* per item of files: its slot's output file was written
    lastErr,        \* the last error logged for a call
    panic,          \* why the process panicked, or "none"
    options_arg,    \* --options: not given, valid JSON, or invalid JSON
    opt_warned,     \* the "Invalid JSON for --options" warning was logged
    warnings,       \* "is not valid JSON. Storing raw text." warnings logged
    req,            \* payload of the last request
    enc_n,          \* per item of files: calls of encode_image_to_base64
    sent_n          \* per item of files: requests that carried its payload

vars == <<dir, batch_size, skip_existing, schema, fs, fs0, run, firstOk, pc,
          files, total, pos, batches, bi, ej, images_b64, batch_names, nreq,
          resp, http_status, contents, wi, status, written, lastErr, panic,
          options_arg, opt_warned, warnings, req, enc_n, sent_n>>

\* ---------------------------------------------------------------- bounds
MaxFiles == 3
MaxBatch == 2
MaxMsgs == 2

\* ------------------------------------------------------------ file names
Pool == << <<"a", ".", "jpg">>, <<"a", ".", "PNG">>, <<"b", ".", "gif">>,
           <<"b", ".", "webp">>, <<"c", ".", "txt">> >>

file_suffix == <<"_cap">>

Min(a, b) == IF a < b THEN a ELSE b

\* index of the final "." of a name, 0 when there is none
LastDot(name) ==
    LET dots == {i \in 1..Len(name) : name[i] = "."}
    IN  IF dots = {} THEN 0 ELSE CHOOSE i \in dots : \A k \in dots : k <= i

\* Path::extension: nothing when there is no "." or only a leading one
HasExtension(name) == LastDot(name) > 1

Extension(name) == SubSeq(name, LastDot(name) + 1, Len(name))

\* Path::file_stem: the name up to its final ".", the whole name when it has
\* no extension
FileStem(name) ==
    IF HasExtension(name) THEN SubSeq(name, 1, LastDot(name) - 1) ELSE name

LowerTok(t) ==
    CASE t = "PNG" -> "png"
      [] t = "JPG" -> "jpg"
      [] OTHER -> t

ToLowercase(s) == [i \in 1..Len(s) |-> LowerTok(s[i])]

supported_ext == {<<"jpg">>, <<"jpeg">>, <<"png">>, <<"bmp">>, <<"gif">>, <<"webp">>}

\* format!("{}{}.json", stem, suffix) under output_dir
OutFileName(stem) == stem \o file_suffix \o <<".", "json">>

\* faulty variant of SkipPath: the extension is kept in the name tested
SkipPathWithExtension(path) == OutFileName(path)

\* the path the skip filter tests for a file
SkipPath(path) == OutFileName(FileStem(path))

OutNames ==
    {OutFileName(FileStem(Pool[i])) :
        i \in {k \in 1..Len(Pool) : ToLowercase(Extension(Pool[k])) \in supported_ext}}

Absent == [st |-> "absent"]
Old == [st |-> "old"]
Empty == [st |-> "empty"]

Exists(f, p) == p \in DOMAIN f /\ f[p] # Absent


\* ------------------------------------------------------------- discovery
\* faulty variant of Selected: the skip-existing test is left out
SelectedIgnoringSkip(path, skip, f) ==
    /\ HasExtension(path)
    /\ ToLowercase(Extension(path)) \in supported_ext

\* the filter_map closure over the directory entries
Selected(path, skip, f) ==
    /\ HasExtension(path)
    /\ ToLowercase(Extension(path)) \in supported_ext
    /\ (skip => ~Exists(f, SkipPath(path)))

RECURSIVE FilterFiles(_, _, _)
FilterFiles(listing, skip, f) ==
    IF listing = <<>> THEN <<>>
    ELSE (IF Selected(Head(listing), skip, f) THEN <<Head(listing)>> ELSE <<>>)
         \o FilterFiles(Tail(listing), skip, f)

\* faulty variant of Chunks (chunks_exact): the shorter last slice is dropped
RECURSIVE ChunksExact(_, _)
ChunksExact(s, n) ==
    IF Len(s) < n THEN <<>>
    ELSE <<SubSeq(s, 1, n)>> \o ChunksExact(SubSeq(s, n + 1, Len(s)), n)

\* slice::chunks: consecutive slices of n elements, the last one shorter
RECURSIVE Chunks(_, _)
Chunks(s, n) ==
    IF s = <<>> THEN <<>>
    ELSE LET k == Min(n, Len(s))
         IN  <<SubSeq(s, 1, k)>> \o Chunks(SubSeq(s, k + 1, Len(s)), n)

IndexOf(path) == CHOOSE i \in 1..Len(files) : files[i] = path

\* -------------------------------------------------------------- encoding
MimeTable(ext) ==
    CASE ext \in {<<"jpg">>, <<"jpeg">>} -> "image/jpeg"
      [] ext = <<"png">> -> "image/png"
      [] ext = <<"bmp">> -> "image/bmp"
      [] ext = <<"gif">> -> "image/gif"
      [] OTHER -> "none"

\* encode_image_to_base64: the file is opened and read first, then its
\* extension is matched
EncodeResult(path, readable) ==
    LET ext == IF HasExtension(path) THEN ToLowercase(Extension(path)) ELSE <<>>
    IN  IF ~readable THEN [ok |-> FALSE, err |-> "io", mime |-> "none"]
        ELSE IF MimeTable(ext) = "none"
             THEN [ok |-> FALSE, err |-> "unsupported", mime |-> "none"]
             ELSE [ok |-> TRUE, err |-> "none", mime |-> MimeTable(ext)]

\* ------------------------------------------------------------- responses
\* JSON values by what the writer can tell apart: a string that parses as
\* JSON, a string that does not, the empty string, and the non-strings
Values == {"strJson", "strText", "strEmpty", "object", "number", "null"}

IsString(v) == v \in {"strJson", "strText", "strEmpty"}

\* an entry of "messages" (or the "message" field): its "content", or
\* "nocontent" when it has none
ListEntries == {"strJson", "strText", "object", "nocontent"}
Entries == Values \cup {"nocontent"}

SeqsUpTo(S, n) == UNION {[1..k -> S] : k \in 0..n}

NoField == [tag |-> "nofield", items |-> <<>>]
NonList == [tag |-> "nonlist", items |-> <<>>]
List(s) == [tag |-> "list", items |-> s]

NoResp == [messages |-> NoField, message |-> "nofield", self |-> "none"]

Responses ==
    {[messages |-> List(s), message |-> m, self |-> "object"] :
        s \in SeqsUpTo(ListEntries, MaxMsgs), m \in {"nofield"}}
    \cup {[messages |-> List(<<"strText">>), message |-> "strJson", self |-> "object"]}
    \cup {[messages |-> NonList, message |-> m, self |-> "object"] :
        m \in {"nofield", "strText"}}
    \cup {[messages |-> NoField, message |-> m, self |-> "object"] : m \in Entries}
    \cup {[messages |-> NoField, message |-> "nofield", self |-> v] : v \in Values}

\* msg.get("content").cloned().unwrap_or(json!(""))
ContentOf(entry) == IF entry = "nocontent" THEN "strEmpty" ELSE entry

\* the three-way resolution of the response
Extract(r) ==
    IF r.messages.tag # "nofield"
    THEN IF r.messages.tag = "list"
         THEN [i \in 1..Len(r.messages.items) |-> ContentOf(r.messages.items[i])]
         ELSE <<>>
    ELSE IF r.message # "nofield"
         THEN <<ContentOf(r.message)>>
         ELSE <<r.self>>

HttpStatuses == {200, 404, 500}
IsSuccess(s) == s >= 200 /\ s < 300

NoErr == [kind |-> "none", status |-> 0]
\* faulty variant of HttpError: the message drops the status
HttpErrorNoStatus(s) == [kind |-> "http", status |-> 0]

\* format!("HTTP error: {}", status)
HttpError(s) == [kind |-> "http", status |-> s]
TransportError == [kind |-> "transport", status |-> 0]
ParseError == [kind |-> "parse", status |-> 0]

\* ---------------------------------------------------------------- writer
\* serde_json::from_value::<Value>(content): a Value always converts to a Value
FromValue(content) == [ok |-> TRUE, val |-> content]

OutputData(content, hasSchema) ==
    IF hasSchema
    THEN IF FromValue(content).ok THEN FromValue(content).val ELSE content
    ELSE content

\* faulty variant of JsonVal: the string is never parsed
JsonValLiteral(s) == s

\* serde_json::from_str(s).unwrap_or(output_data), for a string s
JsonVal(s) == IF s = "strJson" THEN "parsed" ELSE s

Written(v, i) == [st |-> "json", val |-> v, src |-> i]


\* --------------------------------------------------------------- request
\* lines 182-187: the --options string: None when not given, the parsed
\* value, or json!({}) when it is not valid JSON
ParseOptions(arg) ==
    CASE arg = "none" -> "none"
      [] arg = "valid" -> "user"
      [] OTHER -> "empty"

\* lines 45-61: the payload, by the number of images it carries, whether it
\* has a "format" field, and its "options" field
Payload(images, hasSchema, opts) ==
    [images |-> Len(images),
     format |-> hasSchema,
     options |-> IF opts = "none" THEN "nofield" ELSE opts]

NoReq == [images |-> 0, format |-> FALSE, options |-> "nofield"]

\* faulty variant of NothingEncoded: the call is made for every batch
NothingEncodedIgnored(images) == FALSE

\* line 246: images_b64.is_empty()
NothingEncoded(images) == images = <<>>

\* lines 276-286: a schema was requested and the content does not convert
InvalidStructured(content, hasSchema) == hasSchema /\ ~FromValue(content).ok

\* ------------------------------------------------------------------ Init
RECURSIVE ListingOf(_)
ListingOf(S) ==
    IF S = {} THEN <<>>
    ELSE LET m == CHOOSE i \in S : \A k \in S : i <= k
         IN  <<Pool[m]>> \o ListingOf(S \ {m})

Listings ==
    {ListingOf(S) : S \in {T \in SUBSET (1..Len(Pool)) : Cardinality(T) <= MaxFiles}}

OptionArgs == {"none", "valid", "invalid"}

\* the state of main before its first statement, whatever the arguments
InitRun ==
    /\ dir \in Listings
    /\ batch_size \in 1..MaxBatch
    /\ fs0 = fs
    /\ run = 1
    /\ firstOk = FALSE
    /\ pc = "start"
    /\ files = <<>>
    /\ total = 0
    /\ pos = 0
    /\ batches = <<>>
    /\ bi = 1
    /\ ej = 1
    /\ images_b64 = <<>>
    /\ batch_names = <<>>
    /\ nreq = 0
    /\ resp = NoResp
    /\ http_status = 0
    /\ contents = <<>>
    /\ wi = 1
    /\ status = <<>>
    /\ written = <<>>
    /\ lastErr = NoErr
    /\ panic = "none"
    /\ opt_warned = FALSE
    /\ warnings = 0
    /\ req = NoReq
    /\ enc_n = <<>>
    /\ sent_n = <<>>

\* runs without --options, over any output directory
Init ==
    /\ skip_existing \in BOOLEAN
    /\ schema \in BOOLEAN
    /\ options_arg = "none"
    /\ fs \in [OutNames -> {Absent, Old}]
    /\ InitRun

\* runs with any --options, over an empty output directory
InitOptions ==
    /\ skip_existing = FALSE
    /\ schema \in BOOLEAN
    /\ options_arg \in OptionArgs
    /\ fs = [p \in OutNames |-> Absent]
    /\ InitRun

config == <<dir, batch_size, skip_existing, schema, options_arg, run, firstOk, fs0>>

\* --------------------------------------------------------------- actions
Abort(why) ==
    /\ pc' = "aborted"
    /\ panic' = why

ConfigPanics == {"schema_read", "schema_json", "output_dir", "input_dir"}

\* faulty variant of ConfigError: the error is noted and the run goes on
ConfigErrorIgnored(why) ==
    /\ pc' = pc
    /\ panic' = why

\* the expect() of lines 178, 179, 189 and 196
ConfigError(why) == Abort(why)

\* lines 177-196: the schema file cannot be read or is not JSON, the output
\* directory cannot be created, or the input directory cannot be read; the
\* options are parsed (line 182) after the schema and before the directories
ConfigPanic ==
    /\ pc = "start"
    /\ \E why \in ConfigPanics :
         /\ why \in {"schema_read", "schema_json"} => schema
         /\ opt_warned' = (why \in {"output_dir", "input_dir"}
                            /\ options_arg = "invalid")
         /\ ConfigError(why)
    /\ UNCHANGED <<config, fs, files, total, pos, batches, bi, ej, images_b64,
                   batch_names, nreq, resp, http_status, contents, wi, status,
                   written, lastErr, warnings, req, enc_n, sent_n>>

\* lines 177-229: the options, the file list, the progress bar, the batches
Discover ==
    /\ pc = "start"
    /\ opt_warned' = (options_arg = "invalid")
    /\ files' = FilterFiles(dir, skip_existing, fs)
    /\ total' = Len(files')
    /\ batches' = Chunks(files', batch_size)
    /\ status' = [i \in 1..Len(files') |-> "pending"]
    /\ written' = [i \in 1..Len(files') |-> FALSE]
    /\ enc_n' = [i \in 1..Len(files') |-> 0]
    /\ sent_n' = [i \in 1..Len(files') |-> 0]
    /\ pc' = IF Len(batches') = 0 THEN "finish" ELSE "encode"
    /\ UNCHANGED <<config, fs, pos, bi, ej, images_b64, batch_names, nreq, resp,
                   http_status, contents, wi, lastErr, panic, warnings, req>>

\* the head of the next iteration of the batch loop: fresh images_b64 and
\* batch_names, or the end of the loop
NextBatch ==
    /\ bi' = bi + 1
    /\ ej' = 1
    /\ images_b64' = <<>>
    /\ batch_names' = <<>>
    /\ resp' = NoResp
    /\ contents' = <<>>
    /\ wi' = 1
    /\ pc' = IF bi + 1 > Len(batches) THEN "finish" ELSE "encode"

\* line 311, pb.inc(batch.len()), from progress position p
BatchInc(p) == p + Len(batches[bi])

\* lines 234-238: the file encodes
EncodeOk ==
    /\ pc = "encode"
    /\ LET path == batches[bi][ej]
       IN  /\ EncodeResult(path, TRUE).ok
           /\ status' = [status EXCEPT ![IndexOf(path)] = "encoded"]
           /\ enc_n' = [enc_n EXCEPT ![IndexOf(path)] = @ + 1]
           /\ (IF ej = Len(batches[bi])
               THEN /\ pc' = "call"
                    /\ ej' = ej
               ELSE /\ pc' = pc
                    /\ ej' = ej + 1)
           /\ images_b64' = Append(images_b64, path)
           /\ batch_names' = Append(batch_names, FileStem(path))
    /\ UNCHANGED <<config, fs, files, total, pos, batches, bi, nreq, resp,
                   http_status, contents, wi, written, lastErr, panic,
                   opt_warned, warnings, req, sent_n>>

\* lines 239-248: the file does not encode; the error is logged and the
\* progress bar advances by one; after the last file of the batch, continue
\* when nothing was encoded
EncodeErr ==
    /\ pc = "encode"
    /\ LET path == batches[bi][ej]
       IN  \E readable \in BOOLEAN :
             /\ ~EncodeResult(path, readable).ok
             /\ status' = [status EXCEPT ![IndexOf(path)] = "encode_error"]
             /\ enc_n' = [enc_n EXCEPT ![IndexOf(path)] = @ + 1]
             /\ pos' = pos + 1
             /\ IF ej = Len(batches[bi])
                THEN IF NothingEncoded(images_b64)
                     THEN NextBatch
                     ELSE /\ pc' = "call"
                          /\ UNCHANGED <<bi, ej, images_b64, batch_names, resp,
                                         contents, wi>>
                ELSE /\ ej' = ej + 1
                     /\ UNCHANGED <<pc, bi, images_b64, batch_names, resp,
                                    contents, wi>>
    /\ UNCHANGED <<config, fs, files, total, batches, nreq, http_status,
                   written, lastErr, panic, opt_warned, warnings, req, sent_n>>

\* lines 45-73: the payload is built and posted
SendRequest ==
    /\ nreq' = nreq + 1
    /\ req' = Payload(images_b64, schema, ParseOptions(options_arg))
    /\ sent_n' = [i \in 1..Len(sent_n) |->
                    IF \E k \in 1..Len(images_b64) : files[i] = images_b64[k]
                    THEN sent_n[i] + 1 ELSE sent_n[i]]

\* faulty variant of BatchError: the failed call is made again
BatchErrorRetry(e) ==
    /\ lastErr' = e
    /\ pc' = "call"
    /\ UNCHANGED <<status, pos, bi, ej, images_b64, batch_names, resp, contents, wi>>

\* lines 307-311: the call failed with error e; it is logged once for the
\* batch and the loop goes on
BatchError(e) ==
    /\ lastErr' = e
    /\ status' = [i \in 1..Len(status) |->
                    IF \E k \in 1..Len(images_b64) : files[i] = images_b64[k]
                    THEN "call_error" ELSE status[i]]
    /\ pos' = BatchInc(pos)
    /\ NextBatch

\* line 73: the request could not be sent
CallSendFail ==
    /\ pc = "call"
    /\ SendRequest
    /\ http_status' = 0
    /\ BatchError(TransportError)
    /\ UNCHANGED <<config, fs, files, total, batches, written, panic,
                   opt_warned, warnings, enc_n>>

\* lines 75-81: a response with a non-success status
CallHttpError ==
    /\ pc = "call"
    /\ SendRequest
    /\ \E s \in HttpStatuses :
         /\ ~IsSuccess(s)
         /\ http_status' = s
         /\ BatchError(HttpError(s))
    /\ UNCHANGED <<config, fs, files, total, batches, written, panic,
                   opt_warned, warnings, enc_n>>

\* line 83: a success status with a body that is not JSON
CallBadJson ==
    /\ pc = "call"
    /\ SendRequest
    /\ \E s \in HttpStatuses :
         /\ IsSuccess(s)
         /\ http_status' = s
         /\ BatchError(ParseError)
    /\ UNCHANGED <<config, fs, files, total, batches, written, panic,
                   opt_warned, warnings, enc_n>>

\* lines 259-275: a decoded response; its content values are extracted and
\* the loop over them starts
CallOk ==
    /\ pc = "call"
    /\ SendRequest
    /\ \E s \in HttpStatuses, r \in Responses :
         /\ IsSuccess(s)
         /\ http_status' = s
         /\ resp' = r
         /\ contents' = Extract(r)
    /\ wi' = 1
    /\ pc' = "write"
    /\ UNCHANGED <<config, fs, files, total, pos, batches, bi, ej, images_b64,
                   batch_names, status, written, lastErr, panic, opt_warned,
                   warnings, enc_n>>

\* lines 275, 305-311: no content value is left; the progress bar advances
\* by the batch length and the loop goes on
WriteEnd ==
    /\ pc = "write"
    /\ wi > Len(contents)
    /\ pos' = BatchInc(pos)
    /\ NextBatch
    /\ UNCHANGED <<config, fs, files, total, batches, nreq, http_status, status,
                   written, lastErr, panic, opt_warned, warnings, req, enc_n,
                   sent_n>>

\* line 292: batch_names[i] with more content values than encoded files
WritePanicIndex ==
    /\ pc = "write"
    /\ wi <= Len(contents)
    /\ wi > Len(batch_names)
    /\ Abort("index")
    /\ UNCHANGED <<config, fs, files, total, pos, batches, bi, ej, images_b64,
                   batch_names, nreq, resp, http_status, contents, wi, status,
                   written, lastErr, opt_warned, warnings, req, enc_n, sent_n>>

\* lines 276-289: the warning when a schema was requested and the content
\* does not convert
LogWarning ==
    warnings' = IF InvalidStructured(contents[wi], schema)
                THEN warnings + 1 ELSE warnings

\* line 293: File::create fails
WritePanicCreate ==
    /\ pc = "write"
    /\ wi <= Len(contents)
    /\ wi <= Len(batch_names)
    /\ LogWarning
    /\ Abort("create")
    /\ UNCHANGED <<config, fs, files, total, pos, batches, bi, ej, images_b64,
                   batch_names, nreq, resp, http_status, contents, wi, status,
                   written, lastErr, opt_warned, req, enc_n, sent_n>>

\* line 295: the file was created, and output_data.as_str() is None
WritePanicNotString ==
    /\ pc = "write"
    /\ wi <= Len(contents)
    /\ wi <= Len(batch_names)
    /\ ~IsString(OutputData(contents[wi], schema))
    /\ LogWarning
    /\ fs' = [fs EXCEPT ![OutFileName(batch_names[wi])] = Empty]
    /\ Abort("not_string")
    /\ UNCHANGED <<config, files, total, pos, batches, bi, ej, images_b64,
                   batch_names, nreq, resp, http_status, contents, wi, status,
                   written, lastErr, opt_warned, req, enc_n, sent_n>>

\* line 303: the file was created, and write_all fails
WritePanicWrite ==
    /\ pc = "write"
    /\ wi <= Len(contents)
    /\ wi <= Len(batch_names)
    /\ IsString(OutputData(contents[wi], schema))
    /\ LogWarning
    /\ fs' = [fs EXCEPT ![OutFileName(batch_names[wi])] = Empty]
    /\ Abort("write")
    /\ UNCHANGED <<config, files, total, pos, batches, bi, ej, images_b64,
                   batch_names, nreq, resp, http_status, contents, wi, status,
                   written, lastErr, opt_warned, req, enc_n, sent_n>>

\* lines 275-305: one content value is written to the file of its slot
WriteOk ==
    /\ pc = "write"
    /\ wi <= Len(contents)
    /\ wi <= Len(batch_names)
    /\ LET output_data == OutputData(contents[wi], schema)
       IN  /\ IsString(output_data)
           /\ fs' = [fs EXCEPT ![OutFileName(batch_names[wi])] =
                                   Written(JsonVal(output_data), wi)]
    /\ LogWarning
    /\ written' = [written EXCEPT ![IndexOf(images_b64[wi])] = TRUE]
    /\ wi' = wi + 1
    /\ UNCHANGED <<config, pc, files, total, pos, batches, bi, ej, images_b64,
                   batch_names, nreq, resp, http_status, contents, status,
                   lastErr, panic, opt_warned, req, enc_n, sent_n>>

\* line 313: pb.finish_with_message("Done")
Finish ==
    /\ pc = "finish"
    /\ pc' = "done"
    /\ UNCHANGED <<config, fs, files, total, pos, batches, bi, ej, images_b64,
                   batch_names, nreq, resp, http_status, contents, wi, status,
                   written, lastErr, panic, opt_warned, warnings, req, enc_n,
                   sent_n>>

Next ==
    \/ ConfigPanic
    \/ Discover
    \/ EncodeOk
    \/ EncodeErr
    \/ CallSendFail
    \/ CallHttpError
    \/ CallBadJson
    \/ CallOk
    \/ WriteEnd
    \/ WritePanicIndex
    \/ WritePanicCreate
    \/ WritePanicNotString
    \/ WritePanicWrite
    \/ WriteOk
    \/ Finish

Spec == Init /\ [][Next]_vars

SpecOptions == InitOptions /\ [][Next]_vars

\* the program is started again with --skip-existing on the same directories
\* with the same suffix, after the first run completed; the output directory
\* is as it was left
Rerun ==
    /\ run = 1
    /\ pc = "done"
    /\ run' = 2
    /\ firstOk' = \A i \in 1..Len(files) : written[i]
    /\ skip_existing' = TRUE
    /\ fs0' = fs
    /\ pc' = "start"
    /\ files' = <<>>
    /\ total' = 0
    /\ pos' = 0
    /\ batches' = <<>>
    /\ bi' = 1
    /\ ej' = 1
    /\ images_b64' = <<>>
    /\ batch_names' = <<>>
    /\ nreq' = 0
    /\ resp' = NoResp
    /\ http_status' = 0
    /\ contents' = <<>>
    /\ wi' = 1
    /\ status' = <<>>
    /\ written' = <<>>
    /\ lastErr' = NoErr
    /\ panic' = "none"
    /\ opt_warned' = FALSE
    /\ warnings' = 0
    /\ req' = NoReq
    /\ enc_n' = <<>>
    /\ sent_n' = <<>>
    /\ UNCHANGED <<dir, batch_size, schema, options_arg, fs>>

NextRerun == Next \/ Rerun

SpecRerun == Init /\ [][NextRerun]_vars

\* ================================================================ claims
Items == 1..Len(files)

\* an error naming the item's failure (or its batch's) was logged
Errored(i) == status[i] \in {"encode_error", "call_error"}

\* the item reached a terminal outcome
Terminal(i) == written[i] \/ Errored(i)

BatchOf(i) == CHOOSE b \in 1..Len(batches) : \E k \in 1..Len(batches[b]) : batches[b][k] = files[i]

\* C1: every discovered, non-skipped item has exactly one terminal outcome
\* by the end of the run: its output file written or an error logged, never
\* both and never neither.
C1_ExactlyOneOutcome ==
    /\ \A i \in Items : ~(written[i] /\ Errored(i))
    /\ pc = "done" => \A i \in Items : Terminal(i)

\* the write of item i's output file failed (File::create or write_all)
WriteFailed(i) ==
    /\ pc = "aborted"
    /\ panic \in {"create", "write"}
    /\ files[i] = images_b64[wi]

\* C2: a failure of one item at any stage (encoding, endpoint call, creating
\* or writing the output file) is logged, and every other item still reaches
\* its own terminal outcome by the end of the run.
C2_FailureIsolated ==
    \A i \in Items :
        (Errored(i) \/ WriteFailed(i)) =>
            /\ Errored(i)
            /\ pc \in {"done", "aborted"} => \A j \in Items \ {i} : Terminal(j)

\* C3: once the batch loop has started, no per-item event ends the run in an
\* aborted state; the run ends with the final "Done" message.
C3_NeverAborted == pc = "aborted" => panic \in ConfigPanics

\* C4: the progress counter counts each item exactly once: it is at most the
\* total item count in every state and equals it when the run finishes.
C4_CounterExact ==
    /\ pos <= total
    /\ pc = "done" => pos = total

Ceil(n, b) == (n + b - 1) \div b

\* C5: for batch size B >= 1 and a file list of length N, partitioning yields
\* exactly ceil(N/B) batches, each non-empty and of size at most B, that are
\* consecutive slices of the list in order, every file in exactly one batch.
C5_Partition ==
    pc # "start" =>
        LET N == Len(files)
            B == batch_size
        IN  /\ Len(batches) = Ceil(N, B)
            /\ \A b \in 1..Len(batches) :
                 /\ Len(batches[b]) >= 1
                 /\ Len(batches[b]) <= B
                 /\ batches[b] = SubSeq(files, (b - 1) * B + 1, Min(b * B, N))
            /\ \A i \in 1..N :
                 Cardinality({bk \in (1..Len(batches)) \X (1..B) :
                                 /\ bk[2] <= Len(batches[bk[1]])
                                 /\ batches[bk[1]][bk[2]] = files[i]}) = 1

\* a list of three files cut into batches of two: a full and a short batch
C5_Witness ==
    /\ pc = "done"
    /\ Len(files) = 3
    /\ batch_size = 2
    /\ Len(batches) = 2

\* C6: no item of batch n+1 starts any pipeline step until every item of
\* batch n has reached its terminal outcome (file written or error logged).
C6_Barrier ==
    \A i \in Items : \A j \in Items :
        (BatchOf(j) = BatchOf(i) + 1 /\ status[j] # "pending") => Terminal(i)

\* C7: a successful response to a request with k images yields exactly k
\* content values, and the i-th content value is persisted under the base
\* name of the i-th image of the request.
C7_OneContentPerImage ==
    pc = "write" =>
        /\ Len(contents) = Len(images_b64)
        /\ wi > 1 =>
             fs[OutFileName(FileStem(images_b64[wi - 1]))]
                 = Written(JsonVal(contents[wi - 1]), wi - 1)

\* C8: when the call for a batch gets a non-success HTTP status, the logged
\* failure carries that status, no output file is created or modified, no
\* item of the call is marked written, and the run goes on to the next batch.
C8_HttpFailureSkipsBatch ==
    [][(nreq' = nreq + 1 /\ http_status' # 0 /\ ~IsSuccess(http_status')) =>
          /\ lastErr' = [kind |-> "http", status |-> http_status']
          /\ fs' = fs
          /\ written' = written
          /\ bi' = bi + 1
          /\ pc' = IF bi' <= Len(batches) THEN "encode" ELSE "finish"]_vars

\* a batch failed with status 500 and the next batch got as far as its call
C8_Witness ==
    /\ lastErr = [kind |-> "http", status |-> 500]
    /\ bi = 2
    /\ pc = "call"
    /\ fs = fs0

\* C9: when the first run wrote the output of every item, a second run with
\* skip-existing over the same directories selects zero items, sends no
\* request and writes no file.
C9_SkipIdempotent ==
    (run = 2 /\ firstOk /\ pc # "start") =>
        /\ files = <<>>
        /\ nreq = 0
        /\ fs = fs0
        /\ panic = "none" => pc \in {"finish", "done"}

\* the second run completed over a directory with eligible images, at least
\* one of which the first run wrote
C9_Witness ==
    /\ run = 2
    /\ firstOk
    /\ pc = "done"
    /\ \E k \in 1..Len(dir) : Selected(dir[k], FALSE, fs)
    /\ \E p \in OutNames : fs[p].st = "json"

\* C10: no two discovered items of a run target the same output path.
C10_UniqueOutputPaths ==
    \A i \in Items : \A j \in Items :
        i # j => OutFileName(FileStem(files[i])) # OutFileName(FileStem(files[j]))


\* C11: the writer makes a final attempt to parse the content string as
\* JSON: every file the run persists holds the parsed structure when the
\* string parses and the literal string otherwise, with or without a schema.
C11_FinalParse ==
    [][\A p \in OutNames :
         (fs'[p] # fs[p] /\ fs'[p] # Empty) =>
             /\ pc = "write"
             /\ IsString(contents[wi])
             /\ fs'[p].st = "json"
             /\ fs'[p].val = IF contents[wi] = "strJson" THEN "parsed"
                                                          ELSE contents[wi]]_vars

\* with a schema, one file holds a parsed structure and another a literal
\* string
C11_Witness ==
    /\ schema
    /\ \E p \in OutNames : fs[p].st = "json" /\ fs[p].val = "parsed"
    /\ \E q \in OutNames : fs[q].st = "json" /\ fs[q].val = "strText"

\* C12: when a schema was requested and a content value is text that is not
\* valid JSON, the file is written with the text as a JSON string and a
\* warning is logged.
C12_InvalidStructuredWarned ==
    (schema /\ \E p \in OutNames :
                  fs[p].st = "json" /\ fs[p].val \in {"strText", "strEmpty"})
        => warnings >= 1

\* the media types of section 4.1
MediaType(ext) ==
    CASE ext \in {<<"jpg">>, <<"jpeg">>} -> "image/jpeg"
      [] ext = <<"png">> -> "image/png"
      [] ext = <<"bmp">> -> "image/bmp"
      [] ext = <<"gif">> -> "image/gif"
      [] ext = <<"webp">> -> "image/webp"
      [] OTHER -> "none"

\* C13: for every extension of the supported set, compared without case, the
\* codec succeeds on a readable file with the media type of the table, and it
\* fails with UnsupportedFormat for any other or absent extension; so every
\* file the discovery filter accepts is accepted by the codec.
C13_CodecMatchesFilter ==
    pc # "start" =>
        /\ \A k \in 1..Len(dir) :
             LET ext == IF HasExtension(dir[k])
                        THEN ToLowercase(Extension(dir[k])) ELSE <<>>
                 r == EncodeResult(dir[k], TRUE)
             IN  IF ext \in supported_ext
                 THEN r.ok /\ r.mime = MediaType(ext)
                 ELSE ~r.ok /\ r.err = "unsupported"
        /\ \A i \in Items : EncodeResult(files[i], TRUE).ok

\* the items of the batches before batch b
ItemsBefore(b) == Cardinality({i \in Items : BatchOf(i) < b})

\* C14: every request carries at least one encoded image; a batch in which
\* every file failed to encode sends no request (there are at most as many
\* requests as batches with an encoded file), and the items of every batch
\* that is over are counted.
C14_RequestHasImage ==
    /\ nreq > 0 => req.images >= 1
    /\ nreq <= Cardinality({b \in 1..Len(batches) :
                   \E i \in Items :
                       BatchOf(i) = b /\ status[i] \notin {"pending", "encode_error"}})
    /\ pc \in {"encode", "call", "write", "finish", "done"} => pos >= ItemsBefore(bi)

\* the first batch failed to encode as a whole, the second sent the one
\* request of the run
C14_Witness ==
    /\ pc = "done"
    /\ Len(batches) = 2
    /\ \A i \in Items : BatchOf(i) = 1 => status[i] = "encode_error"
    /\ nreq = 1
    /\ req.images >= 1

RawShape(r) == r.messages.tag = "nofield" /\ r.message = "nofield"

\* the resolution of section 4.4
SpecExtract(r) ==
    IF r.messages.tag = "list"
    THEN [i \in 1..Len(r.messages.items) |-> ContentOf(r.messages.items[i])]
    ELSE IF r.message # "nofield"
         THEN <<ContentOf(r.message)>>
         ELSE <<r.self>>

\* C15: extraction is a three-way resolution: a "messages" list maps to the
\* content of each entry; otherwise, also when "messages" is not a list, a
\* "message" field gives the sole content value; otherwise the whole response
\* is the single content value and is persisted as the item's output.
C15_ThreeWayResolution ==
    /\ pc = "write" => contents = SpecExtract(resp)
    /\ (pc = "aborted" /\ panic = "not_string") => ~RawShape(resp)

\* C16: there is no retry: each image is encoded at most once and carried by
\* at most one request, at most one request is sent per batch, and a failed
\* request is not sent again.
C16_NoRetry ==
    /\ \A i \in Items : enc_n[i] <= 1 /\ sent_n[i] <= 1
    /\ nreq <= (bi - 1) + (IF pc \in {"write", "aborted"} THEN 1 ELSE 0)

\* a call failed and the run went on to write the output of a later batch
C16_Witness ==
    /\ pc = "done"
    /\ lastErr.kind # "none"
    /\ nreq = 2
    /\ \E i \in Items : written[i]
    /\ \E i \in Items : status[i] = "call_error" /\ sent_n[i] = 1

\* C17: a configuration-load error ends the process before any batch: no
\* image is encoded, no request is sent and no output file is written.
C17_ConfigErrorBeforeBatches ==
    panic \in ConfigPanics =>
        /\ pc = "aborted"
        /\ files = <<>>
        /\ enc_n = <<>>
        /\ nreq = 0
        /\ pos = 0
        /\ fs = fs0

\* the input directory could not be read although it holds eligible images
C17_Witness ==
    /\ panic = "input_dir"
    /\ pc = "aborted"
    /\ \E k \in 1..Len(dir) : Selected(dir[k], skip_existing, fs)

\* C18: with an --options string that is not valid JSON a warning
\* is logged and the options are ignored: every request is built as if no
\* options had been given and carries no options field.
C18_InvalidOptionsNoField ==
    (options_arg = "invalid" /\ nreq > 0) =>
        /\ opt_warned
        /\ req.options = "nofield"

\* C19: every output file the run creates or truncates ends up holding a
\* complete JSON serialization: no state has an output file that was created
\* and left empty.
C19_NoEmptyOutput == \A p \in OutNames : fs[p] # Empty

\* C20: with skip-existing, every output file that existed before the run is
\* unchanged, every path written did not exist when the file list was built,
\* and a skipped file is not an item: it is not encoded, sent or counted.
C20_SkipLeavesExisting ==
    (skip_existing /\ pc # "start" /\ panic \notin ConfigPanics) =>
        /\ \A p \in OutNames : Exists(fs0, p) => fs[p] = fs0[p]
        /\ \A i \in Items :
             written[i] => ~Exists(fs0, OutFileName(FileStem(files[i])))
        /\ \A k \in 1..Len(dir) :
             Exists(fs0, OutFileName(FileStem(dir[k]))) =>
                 \A i \in Items : files[i] # dir[k]
        /\ total = Cardinality({k \in 1..Len(dir) :
                      /\ HasExtension(dir[k])
                      /\ ToLowercase(Extension(dir[k])) \in supported_ext
                      /\ ~Exists(fs0, OutFileName(FileStem(dir[k])))})
        /\ Len(enc_n) = total /\ Len(sent_n) = total

\* a completed run that skipped an image whose output existed and wrote the
\* output of another
C20_Witness ==
    /\ skip_existing
    /\ pc = "done"
    /\ \E k \in 1..Len(dir) :
         Selected(dir[k], FALSE, fs0) /\ Exists(fs0, OutFileName(FileStem(dir[k])))
    /\ \E i \in Items : written[i]

====
